---- MODULE Spec2Model ----
(***************************************************************************)
(* Model of planlaeg.py: calendar queries, the date-expression parser,     *)
(* the availability resolver, the CP-SAT assignment model built by         *)
(* schedule_people, and the pipeline that main runs on every interaction.  *)
(*                                                                         *)
(* Python strings are modelled as sequences of one-character strings, so   *)
(* that strip, isdigit, split, lower and int are computed, not assumed.    *)
(* Python dicts are modelled as sequences of [k, v] records in insertion   *)
(* order, because schedule_people enumerates them by position.             *)
(***************************************************************************)
EXTENDS Integers, Sequences, FiniteSets, TLC

VARIABLES
    pc,                        \* position of the run
    year, month,               \* the period
    date_list, result_dates,   \* argument and result of parse_dates
    available, unavailable,    \* raw token lists per person (dicts)
    available_days,            \* result of combine_availability (dict)
    preferences,               \* preferred days per person (dict)
    possible_days,             \* the days to staff (ascending sequence)
    limit_one_day_per_person,  \* the limit map (dict)
    schedule,                  \* result of schedule_people: None or day -> person
    people_list,               \* names entered in the sidebar
    limit_days_input,          \* the "Limit overall days" text
    form,                      \* widget values per person
    shown                      \* what main writes under "Schedule"

vars == <<pc, year, month, date_list, result_dates, available, unavailable,
          available_days, preferences, possible_days, limit_one_day_per_person,
          schedule, people_list, limit_days_input, form, shown>>


(***************************************************************************)
(* Bounds of the model.                                                    *)
(***************************************************************************)
MaxTokens == 2     \* longest token list handed to parse_dates
MaxPeople == 2     \* most persons in one run
MaxDay == 3        \* largest day number in the solver's direct inputs

(***************************************************************************)
(* Python str operations on sequences of characters.                       *)
(***************************************************************************)
DigitChars == <<"0", "1", "2", "3", "4", "5", "6", "7", "8", "9">>

UpperChars == <<"A", "B", "C", "D", "E", "F", "G", "H", "I", "J", "K", "L", "M",
                "N", "O", "P", "Q", "R", "S", "T", "U", "V", "W", "X", "Y", "Z",
                "Ø">>

LowerChars == <<"a", "b", "c", "d", "e", "f", "g", "h", "i", "j", "k", "l", "m",
                "n", "o", "p", "q", "r", "s", "t", "u", "v", "w", "x", "y", "z",
                "ø">>

Range(f) == {f[i] : i \in DOMAIN f}

IsDigitChar(c) == c \in Range(DigitChars)

IsSpaceChar(c) == c = " "

\* str.isdigit(): non-empty and every character a digit
IsDigit(s) == Len(s) > 0 /\ \A i \in 1..Len(s) : IsDigitChar(s[i])

RECURSIVE LStrip(_)
LStrip(s) == IF Len(s) > 0 /\ IsSpaceChar(s[1]) THEN LStrip(Tail(s)) ELSE s

RECURSIVE RStrip(_)
RStrip(s) ==
    IF Len(s) > 0 /\ IsSpaceChar(s[Len(s)])
    THEN RStrip(SubSeq(s, 1, Len(s) - 1))
    ELSE s

\* str.strip()
Strip(s) == RStrip(LStrip(s))

LowerChar(c) ==
    IF c \in Range(UpperChars)
    THEN LowerChars[CHOOSE i \in 1..Len(UpperChars) : UpperChars[i] = c]
    ELSE c

\* str.lower()
Lower(s) == [i \in 1..Len(s) |-> LowerChar(s[i])]

\* str.split(sep) for a one-character separator: always at least one piece
RECURSIVE Split(_, _)
Split(s, sep) ==
    IF \A i \in 1..Len(s) : s[i] # sep
    THEN <<s>>
    ELSE LET k == CHOOSE i \in 1..Len(s) :
                      s[i] = sep /\ \A j \in 1..(i - 1) : s[j] # sep
         IN  <<SubSeq(s, 1, k - 1)>> \o Split(SubSeq(s, k + 1, Len(s)), sep)

DigitValue(c) == (CHOOSE i \in 1..10 : DigitChars[i] = c) - 1

RECURSIVE DigitsValue(_)
DigitsValue(s) ==
    IF Len(s) = 0 THEN 0
    ELSE 10 * DigitsValue(SubSeq(s, 1, Len(s) - 1)) + DigitValue(s[Len(s)])

\* int(s) succeeds on digits with optional surrounding whitespace (the
\* characters of the model have no sign or underscore), else ValueError
IntOk(s) == IsDigit(Strip(s))

Int_(s) == DigitsValue(Strip(s))

\* list(range(a, b + 1))
RangeList(a, b) == IF b < a THEN <<>> ELSE [i \in 1..(b - a + 1) |-> a + i - 1]

(***************************************************************************)
(* The calendar module: monthrange and weekday (Monday = 0).               *)
(***************************************************************************)
isleap(y) == y % 4 = 0 /\ (y % 100 # 0 \/ y % 400 = 0)

mdays == <<31, 28, 31, 30, 31, 30, 31, 31, 30, 31, 30, 31>>

\* calendar.monthrange(year, month)[1]
DaysInMonth(y, m) == mdays[m] + (IF m = 2 /\ isleap(y) THEN 1 ELSE 0)

DaysBeforeYear(y) ==
    (y - 1) * 365 + ((y - 1) \div 4) - ((y - 1) \div 100) + ((y - 1) \div 400)

days_before_month == <<0, 31, 59, 90, 120, 151, 181, 212, 243, 273, 304, 334>>

DaysBeforeMonth(y, m) == days_before_month[m] + (IF m > 2 /\ isleap(y) THEN 1 ELSE 0)

\* datetime.date(y, m, d).toordinal() is MonthBase(y, m) + d
MonthBase(y, m) == DaysBeforeYear(y) + DaysBeforeMonth(y, m)

\* date.weekday() of the day d of a month with the given base
WeekdayFrom(base, d) == (base + d + 6) % 7

\* calendar.weekday(year, month, day)
Weekday(y, m, d) == WeekdayFrom(MonthBase(y, m), d)

\* the days 1 .. num_days whose calendar.weekday is in the set wanted
DaysOnWeekdays(y, m, wanted) ==
    LET base == MonthBase(y, m)
        hit == {d \in 1..DaysInMonth(y, m) : WeekdayFrom(base, d) \in wanted}
    IN  SelectSeq(RangeList(1, DaysInMonth(y, m)), LAMBDA day : day \in hit)

\* the ascending sequence of the elements of a set of integers
RECURSIVE SortedSeq(_)
SortedSeq(S) ==
    IF S = {} THEN <<>>
    ELSE LET lo == CHOOSE x \in S : \A z \in S : x <= z
         IN  <<lo>> \o SortedSeq(S \ {lo})

(***************************************************************************)
(* Calendar queries.                                                       *)
(***************************************************************************)
ServiceWeekdays == {6, 0, 1, 2, 3}

get_weekdays_in_month(y, m) == DaysOnWeekdays(y, m, ServiceWeekdays)

day_name_to_index ==
    << [name |-> <<"s", "u", "n", "d", "a", "y">>, index |-> 6],
       [name |-> <<"m", "o", "n", "d", "a", "y">>, index |-> 0],
       [name |-> <<"t", "u", "e", "s", "d", "a", "y">>, index |-> 1],
       [name |-> <<"w", "e", "d", "n", "e", "s", "d", "a", "y">>, index |-> 2],
       [name |-> <<"t", "h", "u", "r", "s", "d", "a", "y">>, index |-> 3],
       [name |-> <<"t", "o", "r", "s", "d", "a", "g">>, index |-> 3],
       [name |-> <<"o", "n", "s", "d", "a", "g">>, index |-> 2],
       [name |-> <<"t", "i", "r", "s", "d", "a", "g">>, index |-> 1],
       [name |-> <<"m", "a", "n", "d", "a", "g">>, index |-> 0],
       [name |-> <<"s", "ø", "n", "d", "a", "g">>, index |-> 6] >>

WeekdayNames == {day_name_to_index[i].name : i \in DOMAIN day_name_to_index}

\* faulty variant: the days counted from 0
get_days_of_week_in_month_ZeroBased(y, m, weekday_name) ==
    LET weekday_index ==
            day_name_to_index[CHOOSE i \in DOMAIN day_name_to_index :
                day_name_to_index[i].name = Lower(weekday_name)].index
        days == DaysOnWeekdays(y, m, {weekday_index})
    IN  [i \in DOMAIN days |-> days[i] - 1]

\* only called with a name of WeekdayNames (up to case): the lookup succeeds
get_days_of_week_in_month(y, m, weekday_name) ==
    LET weekday_index ==
            day_name_to_index[CHOOSE i \in DOMAIN day_name_to_index :
                day_name_to_index[i].name = Lower(weekday_name)].index
    IN  DaysOnWeekdays(y, m, {weekday_index})

(***************************************************************************)
(* parse_dates.  A call either returns a list or raises ValueError; the    *)
(* outcome is [ok |-> TRUE, val |-> list] or [ok |-> FALSE, val |-> <<>>]. *)
(***************************************************************************)
Returned(v) == [ok |-> TRUE, val |-> v]

Raised == [ok |-> FALSE, val |-> <<>>]

\* the days one token contributes (one iteration of the loop)
ParseToken(token, y, m) ==
    LET date == Strip(token)
    IN  IF IsDigit(date)
        THEN Returned(<<DigitsValue(date)>>)
        ELSE IF "-" \in Range(date)
        THEN LET parts == Split(date, "-")
             IN  IF Len(parts) = 2 /\ IntOk(parts[1]) /\ IntOk(parts[2])
                 THEN Returned(RangeList(Int_(parts[1]), Int_(parts[2])))
                 ELSE Raised
        ELSE IF Lower(date) \in WeekdayNames
        THEN Returned(get_days_of_week_in_month(y, m, date))
        ELSE Returned(<<>>)

RECURSIVE parse_dates(_, _, _)
parse_dates(dates, y, m) ==
    IF Len(dates) = 0 THEN Returned(<<>>)
    ELSE LET head == ParseToken(dates[1], y, m)
             rest == parse_dates(Tail(dates), y, m)
         IN  IF head.ok /\ rest.ok THEN Returned(head.val \o rest.val) ELSE Raised

(***************************************************************************)
(* Dicts: sequences of [k, v] in insertion order.                          *)
(***************************************************************************)
Keys(d) == {d[i].k : i \in DOMAIN d}

\* d.get(key, default)
Get(d, key, default) ==
    IF key \in Keys(d)
    THEN d[CHOOSE i \in DOMAIN d : d[i].k = key].v
    ELSE default

\* the orders in which a set can be iterated
Orders(S) ==
    {o \in [1..Cardinality(S) -> S] : \A i, j \in DOMAIN o : i # j => o[i] # o[j]}

(***************************************************************************)
(* combine_availability.  The persons are visited in the iteration order   *)
(* of a set of strings, which the caller cannot choose: `order`.           *)
(***************************************************************************)
\* [day for day in days if day in keep and day not in drop]
KeepDays(days, keep, drop) ==
    SelectSeq(days, LAMBDA day : day \in keep /\ day \notin drop)

\* faulty variant: an empty list of available dates is not replaced by all weekdays
FinalAvailableDates_NoDefault(avail, unavail, weekdays_in_month, y, m) ==
    LET pa == parse_dates(avail, y, m)
        pu == parse_dates(unavail, y, m)
    IN  IF pa.ok /\ pu.ok
        THEN Returned(SortedSeq(Range(
                 KeepDays(pa.val, Range(weekdays_in_month), Range(pu.val)))))
        ELSE Raised

\* the body of the loop for one person
FinalAvailableDates(avail, unavail, weekdays_in_month, y, m) ==
    LET pa == parse_dates(avail, y, m)
        pu == parse_dates(unavail, y, m)
        parsed_available_dates ==
            IF Len(pa.val) = 0 THEN weekdays_in_month ELSE pa.val
        final_available_dates ==
            KeepDays(parsed_available_dates, Range(weekdays_in_month), Range(pu.val))
    IN  IF pa.ok /\ pu.ok
        THEN Returned(SortedSeq(Range(final_available_dates)))
        ELSE Raised

combine_availability(avail, unavail, y, m, order) ==
    LET weekdays_in_month == get_weekdays_in_month(y, m)
        final == [i \in DOMAIN order |->
                     FinalAvailableDates(Get(avail, order[i], <<>>),
                                         Get(unavail, order[i], <<>>),
                                         weekdays_in_month, y, m)]
    IN  IF \A i \in DOMAIN order : final[i].ok
        THEN Returned([i \in DOMAIN order |-> [k |-> order[i], v |-> final[i].val]])
        ELSE Raised

(***************************************************************************)
(* schedule_people: the CP-SAT model and what the solver may return.       *)
(***************************************************************************)
penalty_weight == 100

\* faulty variant: the checkbox is ignored
DayLimit_AlwaysTwo(lim, person) == 2

\* limit_one_day_per_person.get(person, False) selects the bound on the
\* number of days of one person
DayLimit(lim, person) == IF Get(lim, person, FALSE) THEN 1 ELSE 2

\* sum(assigned_days) of person index idx under the values s of schedule
AssignedCount(s, idx) == Cardinality({d \in DOMAIN s : s[d] = idx})

\* faulty variant: the availability constraints are not added
AvailabilityOk_Ignored(ad, day, idx) == TRUE

\* model.Add(schedule[day] != person_idx) for every day not in avail_days
AvailabilityOk(ad, day, idx) == day \in Range(ad[idx + 1].v)

\* faulty variant: the limit constraints are not added
LimitOk_Missing(ad, lim, s, idx) == TRUE

\* faulty variant: the limits are one too large
LimitOk_OffByOne(ad, lim, s, idx) ==
    AssignedCount(s, idx) <= DayLimit(lim, ad[idx + 1].k)

\* model.Add(sum(assigned_days) <= 1) or (... <= 2): idx can take one more
\* day on top of those it has in s
LimitOk(ad, lim, s, idx) == AssignedCount(s, idx) + 1 <= DayLimit(lim, ad[idx + 1].k)

\* the values of the schedule variables that satisfy the hard constraints:
\* every day takes an index of 0 .. num_people - 1, built day by day
RECURSIVE HardFeasible(_, _, _)
HardFeasible(ad, lim, days) ==
    IF Len(days) = 0 THEN {<<>>}
    ELSE LET day == days[Len(days)]
             before == HardFeasible(ad, lim, SubSeq(days, 1, Len(days) - 1))
         IN  {[d \in DOMAIN c[1] \cup {day} |-> IF d = day THEN c[2] ELSE c[1][d]] :
                 c \in {c \in before \X (0..(Len(ad) - 1)) :
                           /\ AvailabilityOk(ad, day, c[2])
                           /\ LimitOk(ad, lim, c[1], c[2])}}

\* the penalty variables: one per (position in preferences, preferred day
\* in possible_days); <<i, j>> is the j-th preferred day of the i-th entry
PenaltyVars(prefs, days) ==
    UNION {{<<i, j>> : j \in {n \in DOMAIN prefs[i].v : prefs[i].v[n] \in Range(days)}} :
              i \in DOMAIN prefs}

\* a penalty variable may be true only if its day is given to its index
\* (OnlyEnforceIf is an implication); false is always allowed
PenaltyValues(prefs, days, s) ==
    SUBSET {pv \in PenaltyVars(prefs, days) : s[prefs[pv[1]].v[pv[2]]] = pv[1] - 1}

\* the number of persons with has_assignment false
Unassigned(ad, s) ==
    Cardinality({idx \in 0..(Len(ad) - 1) : AssignedCount(s, idx) = 0})

\* faulty variant: the unassigned penalties are left out of the objective
Objective_PreferencesOnly(ad, s, pen) == Cardinality(pen)

\* the objective handed to Minimize
Objective(ad, s, pen) == Cardinality(pen) + penalty_weight * Unassigned(ad, s)

\* the solutions of the model
CpSolutions(ad, prefs, lim, days) ==
    {[s |-> s, pen |-> pen] :
        <<s, pen>> \in
            {c \in HardFeasible(ad, lim, days) \X SUBSET PenaltyVars(prefs, days) :
                c[2] \in PenaltyValues(prefs, days, c[1])}}

\* Solve runs without a time limit: OPTIMAL with a solution of least
\* objective, or no solution at all
OptimalSolutions(ad, prefs, lim, days) ==
    LET all == CpSolutions(ad, prefs, lim, days)
    IN  {x \in all : \A z \in all :
            Objective(ad, x.s, x.pen) <= Objective(ad, z.s, z.pen)}

\* the return value None, and a returned dict
None == [none |-> TRUE, map |-> <<>>]

Some(map) == [none |-> FALSE, map |-> map]

\* faulty variant: the returned dict misses the last possible day
schedule_people_DropsLastDay(ad, prefs, days, lim) ==
    LET best == OptimalSolutions(ad, prefs, lim, days)
    IN  IF best = {} THEN {None}
        ELSE {Some([d \in {z \in DOMAIN x.s : z # days[Len(days)]} |-> ad[x.s[d] + 1].k]) :
                 x \in best}

\* every value schedule_people may return
schedule_people(ad, prefs, days, lim) ==
    LET best == OptimalSolutions(ad, prefs, lim, days)
    IN  IF best = {} THEN {None}
        ELSE {Some([d \in DOMAIN x.s |-> ad[x.s[d] + 1].k]) : x \in best}

(***************************************************************************)
(* Texts used as inputs.                                                   *)
(***************************************************************************)
\* before main has written anything under "Schedule"
NothingShown == [kind |-> "nothing", unoccupied_days |-> <<>>]

PersonNames == <<"P1", "P2", "P3", "P4", "P5">>

Periods == {<<2024, 10>>, <<2024, 2>>, <<2023, 2>>, <<2100, 12>>}

TokenPool ==
    { <<"7">>, <<" ", "2", " ">>, <<"0">>, <<"4", "5">>,
      <<"3", "-", "9">>, <<"9", "-", "3">>, <<"2", "9", "-", "3", "3">>,
      <<"3", " ", "-", " ", "5">>,
      <<"3", "-", "x">>, <<"-", "5">>, <<"1", "-", "2", "-", "3">>,
      <<"T", "h", "u", "r", "s", "d", "a", "y">>,
      <<"m", "a", "n", "d", "a", "g">>,
      <<"S", "Ø", "N", "D", "A", "G">>,
      <<"f", "r", "i", "d", "a", "y">>,
      <<"a", "b", "c">>, <<>> }

\* the lists of at most n elements of S
RECURSIVE ListsUpTo(_, _)
ListsUpTo(S, n) ==
    IF n = 0 THEN {<<>>}
    ELSE LET shorter == ListsUpTo(S, n - 1)
         IN  shorter \cup {Append(l, x) : l \in {z \in shorter : Len(z) = n - 1}, x \in S}

(***************************************************************************)
(* parse_dates on its own.                                                 *)
(***************************************************************************)
InitParse ==
    /\ pc = "parse"
    /\ \E p \in Periods : year = p[1] /\ month = p[2]
    /\ date_list \in ListsUpTo(TokenPool, MaxTokens)
    /\ result_dates = Returned(<<>>)
    /\ available = <<>> /\ unavailable = <<>> /\ available_days = <<>>
    /\ preferences = <<>> /\ possible_days = <<>>
    /\ limit_one_day_per_person = <<>>
    /\ schedule = None /\ people_list = <<>> /\ limit_days_input = <<>>
    /\ form = <<>> /\ shown = NothingShown

ParseDates ==
    /\ pc = "parse"
    /\ result_dates' = parse_dates(date_list, year, month)
    /\ pc' = IF result_dates'.ok THEN "parsed" ELSE "raised"
    /\ UNCHANGED <<year, month, date_list, available, unavailable, available_days,
                   preferences, possible_days, limit_one_day_per_person, schedule,
                   people_list, limit_days_input, form, shown>>

NextParse == ParseDates

SpecParse == InitParse /\ [][NextParse]_vars

(***************************************************************************)
(* combine_availability on its own.  Every person of a map has the same    *)
(* token list; the two maps need not have the same persons.                *)
(***************************************************************************)
ResolveTokens ==
    { <<"2">>, <<"1", "-", "9">>, <<"m", "a", "n", "d", "a", "g">>, <<"3", "-", "x">> }

ResolvePeriods == {<<2024, 10>>, <<2023, 2>>}

RawMaps(persons) ==
    {[i \in DOMAIN persons |-> [k |-> persons[i], v |-> l]] :
        l \in ListsUpTo(ResolveTokens, MaxTokens)}

InitResolve ==
    /\ pc = "combine"
    /\ \E p \in ResolvePeriods : year = p[1] /\ month = p[2]
    /\ available \in RawMaps(<<>>) \cup RawMaps(<<"P1">>)
    /\ unavailable \in RawMaps(<<>>) \cup RawMaps(<<"P2", "P1">>)
    /\ date_list = <<>> /\ result_dates = Returned(<<>>)
    /\ available_days = <<>>
    /\ preferences = <<>> /\ possible_days = <<>>
    /\ limit_one_day_per_person = <<>>
    /\ schedule = None /\ people_list = <<>> /\ limit_days_input = <<>>
    /\ form = <<>> /\ shown = NothingShown

\* main, line 199; an exception raised by combine_availability is caught
\* nowhere and ends the run
CombineAvailability ==
    /\ pc = "combine"
    /\ \E order \in Orders(Keys(available) \cup Keys(unavailable)) :
          LET r == combine_availability(available, unavailable, year, month, order)
          IN  IF r.ok
              THEN available_days' = r.val /\ pc' = "solve"
              ELSE available_days' = available_days /\ pc' = "crashed"
    /\ UNCHANGED <<year, month, date_list, result_dates, available, unavailable,
                   preferences, possible_days, limit_one_day_per_person, schedule,
                   people_list, limit_days_input, form, shown>>

NextResolve == CombineAvailability

SpecResolve == InitResolve /\ [][NextResolve]_vars

(***************************************************************************)
(* schedule_people on its own, followed by the display code of main.       *)
(***************************************************************************)
\* availability over the days 1 .. k.  The persons are interchangeable (the
\* limit and preference dicts below range over every person), so they are
\* listed by ascending number of available days.
AvailabilityDicts(n, k) ==
    {[i \in 1..n |-> [k |-> PersonNames[i], v |-> SortedSeq(f[i])]] :
        f \in {g \in [1..n -> SUBSET (1..k)] :
                  \A i \in 1..(n - 1) : Cardinality(g[i]) <= Cardinality(g[i + 1])}}

\* the persons of L have an entry True and the others no entry; or (the
\* last dict) every person has an entry False
LimitDicts(n) ==
    {[i \in 1..Len(l) |-> [k |-> PersonNames[l[i]], v |-> TRUE]] :
        l \in {SortedSeq(L) : L \in SUBSET (1..n)}}
    \cup {[i \in 1..n |-> [k |-> PersonNames[i], v |-> FALSE]]}

\* every person has an entry; at most one person states a preferred day,
\* which is the first day of the month
PreferenceDicts(n) ==
    {[i \in 1..n |-> [k |-> PersonNames[i], v |-> <<>>]]}
    \cup {[i \in 1..n |-> [k |-> PersonNames[i], v |-> IF i = p THEN <<1>> ELSE <<>>]] :
             p \in 1..n}

InitSolve ==
    /\ pc = "solve"
    /\ \E n \in 0..MaxPeople, k \in 0..MaxDay :
          /\ possible_days = RangeList(1, k)
          /\ available_days \in AvailabilityDicts(n, k)
          /\ limit_one_day_per_person \in LimitDicts(n)
          /\ preferences \in PreferenceDicts(n)
    /\ year = 2024 /\ month = 10
    /\ date_list = <<>> /\ result_dates = Returned(<<>>)
    /\ available = <<>> /\ unavailable = <<>>
    /\ schedule = None /\ people_list = <<>> /\ limit_days_input = <<>>
    /\ form = <<>> /\ shown = NothingShown

\* main, line 202
Solve ==
    /\ pc = "solve"
    /\ schedule' \in schedule_people(available_days, preferences, possible_days,
                                     limit_one_day_per_person)
    /\ pc' = "show"
    /\ UNCHANGED <<year, month, date_list, result_dates, available, unavailable,
                   available_days, preferences, possible_days,
                   limit_one_day_per_person, people_list, limit_days_input, form,
                   shown>>

\* bool(schedule): None and the empty dict are false
Truthy(sch) == ~sch.none /\ DOMAIN sch.map # {}

\* main, lines 205-221
Display ==
    /\ pc = "show"
    /\ shown' =
          IF Truthy(schedule)
          THEN [kind |-> "schedule",
                unoccupied_days |->
                    SelectSeq(possible_days, LAMBDA day : day \notin DOMAIN schedule.map)]
          ELSE [kind |-> "none", unoccupied_days |-> possible_days]
    /\ pc' = "done"
    /\ UNCHANGED <<year, month, date_list, result_dates, available, unavailable,
                   available_days, preferences, possible_days,
                   limit_one_day_per_person, schedule, people_list,
                   limit_days_input, form>>

NextSolve == Solve \/ Display

SpecSolve == InitSolve /\ [][NextSolve]_vars

(***************************************************************************)
(* main: one run of the script, from the widget values to the display.     *)
(***************************************************************************)
\* values of the "Limit overall days" text input:
\* "", "1-3", "1-8, 13", "1-x" and "x"
LimitTexts ==
    { <<>>, <<"1", "-", "3">>,
      <<"1", "-", "8", ",", " ", "1", "3">>,
      <<"1", "-", "x">>, <<"x">> }

\* widget values of one person: the checkbox and the three text areas
FormChoices ==
    { [limit |-> FALSE, avail |-> <<>>, unavail |-> <<>>, pref |-> <<>>],
      [limit |-> TRUE, avail |-> <<"1", ",", " ", "2">>, unavail |-> <<>>,
       pref |-> <<"2">>],
      [limit |-> FALSE, avail |-> <<"1", "-", "9">>, unavail |-> <<"2">>,
       pref |-> <<"1", ",", "x">>],
      [limit |-> FALSE, avail |-> <<"3", "-", "x">>, unavail |-> <<>>, pref |-> <<>>],
      [limit |-> TRUE, avail |-> <<"T", "u", "e", "s", "d", "a", "y">>,
       unavail |-> <<"1", "-", "2", "-", "3">>, pref |-> <<>>],
      [limit |-> FALSE, avail |-> <<>>, unavail |-> <<"S", "u", "n", "d", "a", "y">>,
       pref |-> <<"6">>] }

MainPeriods == {<<2024, 10>>, <<2024, 2>>}

Init ==
    /\ pc = "start"
    /\ \E p \in MainPeriods : year = p[1] /\ month = p[2]
    /\ limit_days_input \in LimitTexts
    /\ \E n \in 0..MaxPeople :
          /\ people_list = SubSeq(PersonNames, 1, n)
          /\ form \in [1..n -> FormChoices]
    /\ date_list = <<>> /\ result_dates = Returned(<<>>)
    /\ available = <<>> /\ unavailable = <<>> /\ available_days = <<>>
    /\ preferences = <<>> /\ possible_days = <<>>
    /\ limit_one_day_per_person = <<>>
    /\ schedule = None /\ shown = NothingShown

\* main, lines 157-166
ComputePossibleDays ==
    /\ pc = "start"
    /\ possible_days' =
          LET weekdays == get_weekdays_in_month(year, month)
              limit_days == parse_dates(Split(limit_days_input, ","), year, month)
          IN  IF Len(Strip(limit_days_input)) > 0 /\ limit_days.ok
              THEN KeepDays(weekdays, Range(limit_days.val), {})
              ELSE weekdays
    /\ pc' = "read"
    /\ UNCHANGED <<year, month, date_list, result_dates, available, unavailable,
                   available_days, preferences, limit_one_day_per_person, schedule,
                   people_list, limit_days_input, form, shown>>

\* [item.strip() for item in text.split(',')] if text else []
Items(text) ==
    IF Len(text) = 0 THEN <<>>
    ELSE LET parts == Split(text, ",") IN [i \in DOMAIN parts |-> Strip(parts[i])]

\* [int(item.strip()) for item in text.split(',') if item.strip().isdigit()]
PreferredDays(text) ==
    LET kept == SelectSeq(Items(text), IsDigit)
    IN  [i \in DOMAIN kept |-> DigitsValue(kept[i])]

\* main, lines 171-196: the four dicts, in the order of people_list
ReadInputs ==
    /\ pc = "read"
    /\ limit_one_day_per_person' =
          [i \in DOMAIN people_list |-> [k |-> people_list[i], v |-> form[i].limit]]
    /\ available' =
          [i \in DOMAIN people_list |-> [k |-> people_list[i], v |-> Items(form[i].avail)]]
    /\ unavailable' =
          [i \in DOMAIN people_list |->
              [k |-> people_list[i], v |-> Items(form[i].unavail)]]
    /\ preferences' =
          [i \in DOMAIN people_list |->
              [k |-> people_list[i], v |-> PreferredDays(form[i].pref)]]
    /\ pc' = "combine"
    /\ UNCHANGED <<year, month, date_list, result_dates, available_days,
                   possible_days, schedule, people_list, limit_days_input, form,
                   shown>>

Next == ComputePossibleDays \/ ReadInputs \/ CombineAvailability \/ Solve \/ Display

Spec == Init /\ [][Next]_vars

(***************************************************************************)
(* Properties of schedule_people, stated on the state after Solve.  The    *)
(* hard constraints are restated here on maps from days to person names,   *)
(* by plain enumeration, independently of the model built above.           *)
(***************************************************************************)
Solved == pc = "show"

ScheduleReturned == Solved /\ ~schedule.none

Persons == Keys(available_days)

AvailableTo(person) == Range(Get(available_days, person, <<>>))

LimitOf(person) ==
    IF \E i \in DOMAIN limit_one_day_per_person :
           /\ limit_one_day_per_person[i].k = person
           /\ limit_one_day_per_person[i].v
    THEN 1 ELSE 2

DaysOf(f, person) == {d \in DOMAIN f : f[d] = person}

\* the availability sets and the limits, as functions of the person
Availability == [person \in Persons |-> AvailableTo(person)]

Limits == [person \in Persons |-> LimitOf(person)]

\* the map f gives every day to a person available on it and no person
\* more days than their limit
Respects(f, avail, limit) ==
    /\ \A d \in DOMAIN f : d \in avail[f[d]]
    /\ \A person \in DOMAIN limit : Cardinality(DaysOf(f, person)) <= limit[person]

\* the maps from the possible days to the persons
Assignments == [Range(possible_days) -> Persons]

ZeroDayPersons(f) == Cardinality({person \in Persons : DaysOf(f, person) = {}})

UnmetPreferences(f) ==
    Cardinality(UNION {{<<preferences[i].k, d>> :
                           d \in {x \in Range(preferences[i].v) \cap Range(possible_days) :
                                     f[x] # preferences[i].k}} :
                        i \in DOMAIN preferences})

WeightedPenalty(f) == UnmetPreferences(f) + 100 * ZeroDayPersons(f)

UncoveredDay == \E d \in Range(possible_days) : \A person \in Persons : d \notin AvailableTo(person)

RECURSIVE SumOfLimits(_)
SumOfLimits(S) ==
    IF S = {} THEN 0
    ELSE LET person == CHOOSE x \in S : TRUE
         IN  LimitOf(person) + SumOfLimits(S \ {person})

\* C1: in every returned schedule each possible day is mapped to a person
\* whose availability set contains that day.
C1_AssignedOnlyWhenAvailable ==
    ScheduleReturned =>
        \A d \in Range(possible_days) :
            d \in DOMAIN schedule.map /\ d \in AvailableTo(schedule.map[d])

\* a schedule over two days or more, where somebody lacks one of the days
C1_Witness ==
    /\ pc = "show" /\ ~schedule.none /\ Len(possible_days) >= 2
    /\ \E person \in Persons : \E d \in Range(possible_days) : d \notin AvailableTo(person)

\* C2: in every returned schedule a person has at most 1 day when the limit
\* map holds True for them, and at most 2 otherwise (entry False or no entry).
C2_DayLimitRespected ==
    ScheduleReturned =>
        \A person \in Persons :
            Cardinality(DaysOf(schedule.map, person)) <= LimitOf(person)

\* a limited person with one day next to a person without entry with two
C2_Witness ==
    /\ pc = "show" /\ ~schedule.none
    /\ \E a, b \in Persons :
          /\ Get(limit_one_day_per_person, a, FALSE)
          /\ b \notin Keys(limit_one_day_per_person)
          /\ Cardinality(DaysOf(schedule.map, a)) = 1
          /\ Cardinality(DaysOf(schedule.map, b)) = 2

\* C3: every returned schedule minimizes, over the assignments that satisfy
\* the hard constraints, (stated preferences left unmet) + 100 x (persons
\* with zero days).
C3_MinimizesWeightedPenalty ==
    ScheduleReturned =>
        LET avail == Availability
            limit == Limits
            got == WeightedPenalty(schedule.map)
        IN  \A f \in Assignments : Respects(f, avail, limit) => got <= WeightedPenalty(f)

C7_NoneIffNoFeasibleAssignment ==
    Solved =>
        LET avail == Availability
            limit == Limits
        IN  schedule.none <=> ~\E f \in Assignments : Respects(f, avail, limit)

\* None although every day is available to somebody and the limits add up
\* to enough days
C7_Witness ==
    /\ pc = "show" /\ schedule.none
    /\ ~UncoveredDay
    /\ SumOfLimits(Persons) >= Len(possible_days)

\* C9: in every returned schedule the number of persons with zero days is
\* the least that any assignment satisfying the hard constraints achieves,
\* whatever the preferences are.
C9_FewestPersonsWithoutDay ==
    ScheduleReturned =>
        LET avail == Availability
            limit == Limits
            got == ZeroDayPersons(schedule.map)
        IN  \A f \in Assignments : Respects(f, avail, limit) => got <= ZeroDayPersons(f)

\* a schedule chosen against an assignment that satisfies the hard
\* constraints and meets more of the stated preferences, but leaves more
\* persons without a day
C9_Witness ==
    /\ pc = "show" /\ ~schedule.none
    /\ \E f \in Assignments :
          /\ Respects(f, Availability, Limits)
          /\ ZeroDayPersons(f) > ZeroDayPersons(schedule.map)
          /\ UnmetPreferences(f) < UnmetPreferences(schedule.map)

\* C10: schedule_people returns None or a map whose keys are exactly the
\* possible days and whose values are keys of the availability map; so when
\* main shows a schedule, its list of unoccupied days is empty.
C10_AllOrNothing ==
    /\ ScheduleReturned =>
          /\ DOMAIN schedule.map = Range(possible_days)
          /\ \A d \in DOMAIN schedule.map : schedule.map[d] \in Persons
    /\ (pc = "done" /\ shown.kind = "schedule") => shown.unoccupied_days = <<>>

\* main has shown a schedule over two days or more
C10_Witness ==
    /\ pc = "done" /\ shown.kind = "schedule" /\ Len(possible_days) >= 2

(***************************************************************************)
(* Properties of combine_availability, stated on the state after it has    *)
(* returned.                                                               *)
(***************************************************************************)
EligibleDays == Range(get_weekdays_in_month(year, month))

ParsedAvailable(person) == Range(parse_dates(Get(available, person, <<>>), year, month).val)

ParsedUnavailable(person) ==
    Range(parse_dates(Get(unavailable, person, <<>>), year, month).val)

StrictlyAscending(l) == \A i, j \in DOMAIN l : i < j => l[i] < l[j]

\* C5: for every person of either input map the result lists, ascending and
\* without duplicates, ((A if A is non-empty else E) intersect E) minus U;
\* so it is a subset of E, and exactly E for a person without any token.
C5_FinalAvailability ==
    pc = "solve" =>
        /\ Keys(available_days) = Keys(available) \cup Keys(unavailable)
        /\ \A i \in DOMAIN available_days :
              LET person == available_days[i].k
                  A == ParsedAvailable(person)
                  U == ParsedUnavailable(person)
                  got == available_days[i].v
              IN  /\ Range(got) = ((IF A # {} THEN A ELSE EligibleDays) \cap EligibleDays) \ U
                  /\ StrictlyAscending(got)
                  /\ Range(got) \subseteq EligibleDays
                  /\ (Get(available, person, <<>>) = <<>>
                      /\ Get(unavailable, person, <<>>) = <<>>)
                         => got = get_weekdays_in_month(year, month)

\* one person with a range that leaves the eligible days and overlaps the
\* unavailable dates, next to a person of the unavailable map alone
C5_Witness ==
    /\ pc = "solve"
    /\ \E i \in DOMAIN available_days :
          LET person == available_days[i].k
          IN  /\ ~(ParsedAvailable(person) \subseteq EligibleDays)
              /\ ParsedAvailable(person) \cap ParsedUnavailable(person) # {}
              /\ available_days[i].v # <<>>
    /\ \E i \in DOMAIN available_days :
          /\ available_days[i].k \notin Keys(available)
          /\ available_days[i].v # <<>>

(***************************************************************************)
(* Properties of parse_dates, stated on the state after the call.          *)
(***************************************************************************)
IsBareInteger(token) == IsDigit(Strip(token))

IsRange(token) ==
    /\ ~IsBareInteger(token)
    /\ Len(Split(Strip(token), "-")) = 2
    /\ \A i \in 1..2 : IntOk(Split(Strip(token), "-")[i])

IsWeekdayName(token) ==
    /\ ~IsBareInteger(token)
    /\ "-" \notin Range(Strip(token))
    /\ Lower(Strip(token)) \in WeekdayNames

\* the integer d is written out by the token
Denotes(token, d) ==
    \/ IsBareInteger(token) /\ DigitsValue(Strip(token)) = d
    \/ /\ IsRange(token)
       /\ Int_(Split(Strip(token), "-")[1]) <= d
       /\ d <= Int_(Split(Strip(token), "-")[2])

\* C8 as stated: every integer in the result of parse_dates lies in
\* [1, days-in-month].
C8_AllDaysWithinMonth ==
    pc = "parsed" =>
        \A d \in Range(result_dates.val) : 1 <= d /\ d <= DaysInMonth(year, month)

\* C8, amended: the days that weekday-name tokens contribute lie in
\* [1, days-in-month]; an integer of the result outside that interval is
\* written out by a bare-integer token or a range token of the list.
C8_OutsideMonthOnlyAsWritten ==
    pc = "parsed" =>
        /\ \A d \in Range(result_dates.val) :
              \/ 1 <= d /\ d <= DaysInMonth(year, month)
              \/ \E i \in DOMAIN date_list : Denotes(date_list[i], d)
        /\ (\A i \in DOMAIN date_list : IsWeekdayName(date_list[i]))
              => \A d \in Range(result_dates.val) : 1 <= d /\ d <= DaysInMonth(year, month)

\* a weekday name that contributes days, next to a token that writes out a
\* day after the end of the month
C8_Witness ==
    /\ pc = "parsed"
    /\ \E i, j \in DOMAIN date_list :
          /\ IsWeekdayName(date_list[i])
          /\ parse_dates(<<date_list[i]>>, year, month).val # <<>>
          /\ \E d \in Range(result_dates.val) :
                d > DaysInMonth(year, month) /\ Denotes(date_list[j], d)

(***************************************************************************)
(* Properties of the run of main.                                          *)
(***************************************************************************)
\* a token with a "-" that is not two integers
IsMalformedRange(token) ==
    /\ ~IsBareInteger(token)
    /\ "-" \in Range(Strip(token))
    /\ ~IsRange(token)

MalformedRangeEntered ==
    \E i \in DOMAIN form :
        \E token \in Range(Items(form[i].avail)) \cup Range(Items(form[i].unavail)) :
            IsMalformedRange(token)

\* C6: a malformed range token among a person's available or unavailable
\* dates does not abort the run: the run still goes on to the solver and
\* ends with a schedule or with the report that none is feasible.
C6_MalformedRangeDoesNotAbort == MalformedRangeEntered => pc # "crashed"

====
